---- MODULE Spec2Model ----
(***************************************************************************)
(* Model of AppComputeWorker (src/worker.rs): the per-cycle state machine  *)
(* run(), the release hook unmap_all(), the resolver extract_pipelines()   *)
(* and the host facade write()/read()/execute()/ready().                   *)
(*                                                                         *)
(* The worker is one record whose fields carry the names of the struct     *)
(* fields.  Device buffers are identified by small integers; a command     *)
(* encoder is the sequence of commands recorded into it.  The copies made  *)
(* for the staging pairs are recorded as one command holding the set of    *)
(* (name, device buffer) pairs, because the iteration order of the hash    *)
(* map is not specified.                                                   *)
(***************************************************************************)
EXTENDS Integers, Sequences, FiniteSets, TLC

VARIABLES worker, phase, panicked, blockingWait, executeCalls, submitCount,
          lastSubmit, stepResults, tickInfo, ret, uploads, inFlight

vars == <<worker, phase, panicked, blockingWait, executeCalls, submitCount,
          lastSubmit, stepResults, tickInfo, ret, uploads, inFlight>>

(***************************************************************************)
(* Bounds                                                                  *)
(***************************************************************************)
\* The counters of execute() calls and of submitted batches saturate here.
MaxCount == 3

Sat(n) == IF n < MaxCount THEN n + 1 ELSE n

(***************************************************************************)
(* Types of the data model                                                 *)
(***************************************************************************)
Continuous == [tag |-> "Continuous", flag |-> FALSE]

OneShot(b) == [tag |-> "OneShot", flag |-> b]

RunMode == {Continuous, OneShot(FALSE), OneShot(TRUE)}

WorkerState == {"Created", "Available", "Working", "FinishedWorking"}

ComputePass(vs, uuid) ==
    [kind |-> "ComputePass", a |-> "", b |-> "", vars |-> vs, shader_uuid |-> uuid]

Swap(x, y) ==
    [kind |-> "Swap", a |-> x, b |-> y, vars |-> <<>>, shader_uuid |-> ""]

StaggingBuffers == [read_mapped |-> FALSE, write_mapped |-> FALSE]

\* A fresh command encoder, as made by create_command_encoder.
NewEncoder == [some |-> TRUE, cmds |-> <<>>]

NoEncoder == [some |-> FALSE, cmds |-> <<>>]

(***************************************************************************)
(* Configurations handed over by the builder                               *)
(***************************************************************************)
\* Names of the device buffers; "Z" is a name that is registered nowhere.
BufferNames == {"A", "B", "U"}

\* Names that have a staging pair ("U" is a buffer without one).
StagingNames == {"A", "B"}

\* Programs whose compilation was requested; "p9" is in no table.
Programs == {"p1", "p2"}

InitialBuffers == [n \in BufferNames |-> CASE n = "A" -> 1 [] n = "B" -> 2 [] OTHER -> 3]

\* The step lists the worker is built with.
StepLists ==
    { << Swap("A", "B"), ComputePass(<<"A">>, "p1") >>,
      << ComputePass(<<"A", "U">>, "p1"), ComputePass(<<"B">>, "p2") >>,
      << ComputePass(<<"A">>, "p1"), Swap("A", "Z"), ComputePass(<<"Z">>, "p2") >>,
      << Swap("Z", "B"), ComputePass(<<"B">>, "p9"), Swap("Z", "Z"), Swap("B", "A") >>,
      << Swap("A", "A"), ComputePass(<<"A">>, "p1") >>,
      << >> }

InitialRunModes == {Continuous, OneShot(FALSE)}

\* AppComputeWorker::from
from(steps, run_mode) ==
    [ state              |-> "Created",
      cached_pipeline_ids |-> Programs,
      pipelines          |-> [u \in Programs |-> FALSE],
      buffers            |-> InitialBuffers,
      staging_buffers    |-> [n \in StagingNames |-> StaggingBuffers],
      steps              |-> steps,
      command_encoder    |-> NewEncoder,
      write_requested    |-> FALSE,
      run_mode           |-> run_mode ]

(***************************************************************************)
(* Operations of the worker                                                *)
(***************************************************************************)
Cmd(op, index, uuid, entries) ==
    [op |-> op, step |-> index, pipeline |-> uuid, entries |-> entries]

Record(w, cmd) ==
    [w EXCEPT !.command_encoder.cmds = Append(@, cmd)]

\* The outcome of an operation that returns a Result: the worker after it
\* and the value returned ("Panic" when an unwrap() inside it fails).
Outcome(w, res) == [w |-> w, res |-> res]

\* AppComputeWorker::dispatch
dispatch(w, index) ==
    LET step == w.steps[index]
        vs   == step.vars
    IN  IF step.kind = "Swap" THEN Outcome(w, "InvalidStep")
        ELSE IF \E j \in 1..Len(vs) : vs[j] \notin DOMAIN w.buffers
             THEN Outcome(w, "BufferNotFound")
        ELSE IF step.shader_uuid \notin DOMAIN w.pipelines
             THEN Outcome(w, "PipelinesEmpty")
        ELSE IF ~w.pipelines[step.shader_uuid]
             THEN Outcome(w, "PipelineNotReady")
        ELSE IF ~w.command_encoder.some
             THEN Outcome(w, "EncoderIsNone")
        ELSE Outcome(Record(w, Cmd("dispatch", index, step.shader_uuid,
                                   {<<j, w.buffers[vs[j]]>> : j \in 1..Len(vs)})),
                     "Ok")

\* swap() that looks up only the first name before exchanging.
swap_ChecksFirstOnly(w, index) ==
    LET step == w.steps[index]
    IN  IF step.kind = "ComputePass" THEN Outcome(w, "InvalidStep")
        ELSE IF step.a \notin DOMAIN w.buffers THEN Outcome(w, "BufferNotFound")
        ELSE IF step.b \notin DOMAIN w.buffers
             THEN Outcome([w EXCEPT !.buffers[step.a] = 0], "Ok")
        ELSE IF step.a = step.b THEN Outcome(w, "Panic")
        ELSE Outcome([w EXCEPT !.buffers[step.a] = w.buffers[step.b],
                               !.buffers[step.b] = w.buffers[step.a]],
                     "Ok")

\* swap() that reports success without exchanging the two buffers.
swap_NoExchange(w, index) ==
    LET step == w.steps[index]
    IN  IF step.kind = "ComputePass" THEN Outcome(w, "InvalidStep")
        ELSE IF step.a \notin DOMAIN w.buffers THEN Outcome(w, "BufferNotFound")
        ELSE IF step.b \notin DOMAIN w.buffers THEN Outcome(w, "BufferNotFound")
        ELSE IF step.a = step.b THEN Outcome(w, "Panic")
        ELSE Outcome(w, "Ok")

\* swap() that copies the second buffer over the first instead of
\* exchanging them.
swap_Duplicates(w, index) ==
    LET step == w.steps[index]
    IN  IF step.kind = "ComputePass" THEN Outcome(w, "InvalidStep")
        ELSE IF step.a \notin DOMAIN w.buffers THEN Outcome(w, "BufferNotFound")
        ELSE IF step.b \notin DOMAIN w.buffers THEN Outcome(w, "BufferNotFound")
        ELSE IF step.a = step.b THEN Outcome(w, "Panic")
        ELSE Outcome([w EXCEPT !.buffers[step.a] = w.buffers[step.b]], "Ok")

\* AppComputeWorker::swap; get_many_mut yields None for a repeated key and
\* the unwrap() then panics.
swap(w, index) ==
    LET step == w.steps[index]
    IN  IF step.kind = "ComputePass" THEN Outcome(w, "InvalidStep")
        ELSE IF step.a \notin DOMAIN w.buffers THEN Outcome(w, "BufferNotFound")
        ELSE IF step.b \notin DOMAIN w.buffers THEN Outcome(w, "BufferNotFound")
        ELSE IF step.a = step.b THEN Outcome(w, "Panic")
        ELSE Outcome([w EXCEPT !.buffers[step.a] = w.buffers[step.b],
                               !.buffers[step.b] = w.buffers[step.a]],
                     "Ok")

\* AppComputeWorker::write_staging_buffers
write_staging_buffers(w) ==
    IF DOMAIN w.staging_buffers = {} THEN Outcome(w, "Ok")
    ELSE IF ~w.command_encoder.some THEN Outcome(w, "EncoderIsNone")
    ELSE IF \E n \in DOMAIN w.staging_buffers : n \notin DOMAIN w.buffers
         THEN Outcome(w, "BufferNotFound")
    ELSE Outcome(Record(w, Cmd("copy_write_staging_to_buffer", 0, "",
                               {<<n, w.buffers[n]>> : n \in DOMAIN w.staging_buffers})),
                 "Ok")

\* AppComputeWorker::read_staging_buffers
read_staging_buffers(w) ==
    IF DOMAIN w.staging_buffers = {} THEN Outcome(w, "Ok")
    ELSE IF ~w.command_encoder.some THEN Outcome(w, "EncoderIsNone")
    ELSE IF \E n \in DOMAIN w.staging_buffers : n \notin DOMAIN w.buffers
         THEN Outcome(w, "BufferNotFound")
    ELSE Outcome(Record(w, Cmd("copy_buffer_to_read_staging", 0, "",
                               {<<n, w.buffers[n]>> : n \in DOMAIN w.staging_buffers})),
                 "Ok")

\* AppComputeWorker::map_staging_buffers
map_staging_buffers(w) ==
    [w EXCEPT !.staging_buffers =
        [n \in DOMAIN @ |->
            [read_mapped  |-> TRUE,
             write_mapped |-> IF w.write_requested THEN TRUE ELSE @[n].write_mapped]]]

\* submit() that hands the commands to the queue but leaves the encoder in
\* place.
submit_KeepsEncoder(w) ==
    IF ~w.command_encoder.some THEN Outcome(w, "Panic")
    ELSE Outcome([w EXCEPT !.state = "Working"], "Ok")

\* AppComputeWorker::submit; the batch handed to the queue is the encoder's
\* command list.  take().unwrap() panics on a missing encoder.
submit(w) ==
    IF ~w.command_encoder.some THEN Outcome(w, "Panic")
    ELSE Outcome([w EXCEPT !.command_encoder = NoEncoder, !.state = "Working"], "Ok")

\* AppComputeWorker::ready
ready(w) == w.state = "FinishedWorking"

\* execute() that flips the request of a one-shot worker instead of
\* setting it.
execute_Toggles(w) ==
    IF w.run_mode = Continuous THEN w
    ELSE [w EXCEPT !.run_mode = OneShot(~w.run_mode.flag)]

\* AppComputeWorker::execute
execute(w) ==
    IF w.run_mode = Continuous THEN w
    ELSE [w EXCEPT !.run_mode = OneShot(TRUE)]

\* ready_to_execute() that looks at the state only.
ready_to_execute_IgnoresMode(w) == w.state # "Working"

\* AppComputeWorker::ready_to_execute
ready_to_execute(w) ==
    (w.state # "Working") /\ (w.run_mode # OneShot(FALSE))

\* write() that raises the pending-write flag before looking the name up.
write_FlagBeforeLookup(w, target) ==
    IF target \notin DOMAIN w.staging_buffers
    THEN [w |-> [w EXCEPT !.write_requested = TRUE],
          res |-> "StagingBufferNotFound", upload |-> ""]
    ELSE [w |-> [w EXCEPT !.write_requested = TRUE], res |-> "Ok", upload |-> target]

\* AppComputeWorker::write; upload is the name whose write-staging buffer
\* received a queued upload, or "" when none was enqueued.
write(w, target) ==
    IF target \notin DOMAIN w.staging_buffers
    THEN [w |-> w, res |-> "StagingBufferNotFound", upload |-> ""]
    ELSE [w |-> [w EXCEPT !.write_requested = TRUE], res |-> "Ok", upload |-> target]

\* AppComputeWorker::read, read_one, read_raw: the lookup of the staging
\* pair; "NotMapped" stands for get_mapped_range on a buffer that is not
\* mapped.
read(w, target) ==
    IF target \notin DOMAIN w.staging_buffers THEN "StagingBufferNotFound"
    ELSE IF w.staging_buffers[target].read_mapped THEN "Ok"
    ELSE "NotMapped"

\* Then(F, x) is F applied to the value of x, with x evaluated once: the
\* sequencing "let x = ...; rest" of the source.
Then(F(_), x) == CHOOSE v \in {F(y) : y \in {x}} : TRUE

\* One iteration of the step loop of run(): the call made for step i.
step_call(w, i) ==
    IF w.steps[i].kind = "ComputePass" THEN dispatch(w, i) ELSE swap(w, i)

\* The step loop of run(): every step in declaration order, each result
\* dropped by .ok(); results collects what each call returned.
RECURSIVE run_steps(_, _, _)
run_steps(w, i, results) ==
    IF i > Len(w.steps) THEN [w |-> w, results |-> results, panic |-> FALSE]
    ELSE Then(LAMBDA o :
                 IF o.res = "Panic"
                 THEN [w |-> o.w, results |-> Append(results, o.res), panic |-> TRUE]
                 ELSE run_steps(o.w, i + 1, Append(results, o.res)),
              step_call(w, i))

\* The execute branch left by a failed unwrap(): w is the worker at that
\* point.
Stopped(w, results) ==
    [w |-> w, panic |-> TRUE, submitted |-> FALSE, batch |-> <<>>, results |-> results]

\* run(), execute branch: submit() and map_staging_buffers(); batch is what
\* the encoder held when it was submitted.
submit_and_map(w, results) ==
    Then(LAMBDA sb :
            IF sb.res # "Ok" THEN Stopped(sb.w, results)
            ELSE [w |-> map_staging_buffers(sb.w), panic |-> FALSE, submitted |-> TRUE,
                  batch |-> w.command_encoder.cmds, results |-> results],
         submit(w))

\* run(), execute branch: read_staging_buffers().unwrap() and what follows.
stage_and_submit(w, results) ==
    Then(LAMBDA rs :
            IF rs.res # "Ok" THEN Stopped(rs.w, results)
            ELSE submit_and_map(rs.w, results),
         read_staging_buffers(w))

\* The pending write copied without the reset of the flag.
upload_writes_KeepsFlag(w) ==
    IF w.write_requested
    THEN Then(LAMBDA ws : [w |-> ws.w, panic |-> ws.res # "Ok"],
              write_staging_buffers(w))
    ELSE [w |-> w, panic |-> FALSE]

\* run(), execute branch: the pending write, write_staging_buffers().unwrap()
\* and the reset of the flag; panic tells that the unwrap() failed.
upload_writes(w) ==
    IF w.write_requested
    THEN Then(LAMBDA ws :
                 [w |-> IF ws.res = "Ok" THEN [ws.w EXCEPT !.write_requested = FALSE]
                        ELSE ws.w,
                  panic |-> ws.res # "Ok"],
              write_staging_buffers(w))
    ELSE [w |-> w, panic |-> FALSE]

\* The branch of run() taken when ready_to_execute() holds.  panic is TRUE
\* when an unwrap() failed; submitted is TRUE when submit() handed batch to
\* the queue.
execute_branch(w) ==
    Then(LAMBDA up :
            IF up.panic THEN Stopped(up.w, <<>>)
            ELSE Then(LAMBDA st :
                         IF st.panic THEN Stopped(st.w, st.results)
                         ELSE stage_and_submit(st.w, st.results),
                      run_steps(up.w, 1, <<>>)),
         upload_writes(w))

\* The poll block without the reset of the one-shot request.
poll_branch_KeepsRequest(w, p) ==
    IF w.run_mode # OneShot(FALSE) /\ p
    THEN [w EXCEPT !.state = "FinishedWorking", !.command_encoder = NewEncoder]
    ELSE w

\* The poll block that never observes completion.
poll_branch_NeverCompletes(w, p) == w

\* The poll block that takes the batch for complete whatever the wait says.
poll_branch_IgnoresAnswer(w, p) ==
    IF w.run_mode # OneShot(FALSE)
    THEN [w EXCEPT !.state = "FinishedWorking",
                   !.command_encoder = NewEncoder,
                   !.run_mode = IF @ = Continuous THEN Continuous ELSE OneShot(FALSE)]
    ELSE w

\* The poll block without the short circuit on the run mode: the wait is
\* performed for an idle one-shot worker too.
poll_branch_AlwaysPolls(w, p) ==
    IF p
    THEN [w EXCEPT !.state = "FinishedWorking",
                   !.command_encoder = NewEncoder,
                   !.run_mode = IF @ = Continuous THEN Continuous ELSE OneShot(FALSE)]
    ELSE w

\* The last block of run(): the device wait and what follows its success.
\* poll() is only evaluated when the run mode is not OneShot(false).
poll_branch(w, p) ==
    IF w.run_mode # OneShot(FALSE) /\ p
    THEN [w EXCEPT !.state = "FinishedWorking",
                   !.command_encoder = NewEncoder,
                   !.run_mode = IF @ = Continuous THEN Continuous ELSE OneShot(FALSE)]
    ELSE w

\* run() from the ready_to_execute() test on; w is the worker after the
\* first block of run().
run_from_available(w, p) ==
    IF ready_to_execute(w)
    THEN Then(LAMBDA ex :
                 IF ex.panic
                 THEN [w |-> ex.w, panic |-> TRUE, executed |-> TRUE,
                       submitted |-> FALSE, polled |-> FALSE, batch |-> <<>>,
                       results |-> ex.results]
                 ELSE [w |-> poll_branch(ex.w, p), panic |-> FALSE, executed |-> TRUE,
                       submitted |-> TRUE, polled |-> ex.w.run_mode # OneShot(FALSE),
                       batch |-> ex.batch, results |-> ex.results],
              execute_branch(w))
    ELSE [w |-> poll_branch(w, p), panic |-> FALSE, executed |-> FALSE,
          submitted |-> FALSE, polled |-> w.run_mode # OneShot(FALSE),
          batch |-> <<>>, results |-> <<>>]

\* run() whose first block also promotes a freshly created worker.
run_CreatedToAvailable(w, p) ==
    run_from_available(IF ready(w) \/ w.state = "Created"
                       THEN [w EXCEPT !.state = "Available"] ELSE w, p)

\* AppComputeWorker::run, with p the answer of the device wait.
run(w, p) ==
    run_from_available(IF ready(w) THEN [w EXCEPT !.state = "Available"] ELSE w, p)

\* unmap_all() with the guard inverted: it releases the mappings only when
\* the worker is not ready to execute.
unmap_all_WhenNotReady(w) ==
    IF ready_to_execute(w) THEN w
    ELSE [w EXCEPT !.staging_buffers =
            [n \in DOMAIN @ |-> [read_mapped |-> FALSE, write_mapped |-> FALSE]]]

\* AppComputeWorker::unmap_all
unmap_all(w) ==
    IF ~ready_to_execute(w) THEN w
    ELSE [w EXCEPT !.staging_buffers =
            [n \in DOMAIN @ |-> [read_mapped |-> FALSE, write_mapped |-> FALSE]]]

\* extract_pipelines() without the skip of entries that are already
\* resolved: every entry takes the cache's current answer.
extract_pipelines_Refetches(w, cache) ==
    [w EXCEPT !.pipelines =
        [u \in DOMAIN @ |-> IF u \in w.cached_pipeline_ids THEN cache[u] ELSE @[u]]]

\* AppComputeWorker::extract_pipelines; cache[u] tells whether the pipeline
\* cache returns a pipeline for u in this call.
extract_pipelines(w, cache) ==
    [w EXCEPT !.pipelines =
        [u \in DOMAIN @ |->
            IF u \in w.cached_pipeline_ids /\ ~@[u] THEN cache[u] ELSE @[u]]]

(***************************************************************************)
(* The system: the scheduler runs the three hooks once per cycle, in the   *)
(* order resolve, tick, release; the caller acts between two cycles.       *)
(***************************************************************************)
\* "U" is a device buffer without a staging pair, "Z" is registered nowhere.
WriteTargets == {"A", "U"}

ReadTargets == {"A", "Z"}

\* What the caller's last call returned.
Returned(op, target, res) == [op |-> op, target |-> target, res |-> res]

NoTick == [executed |-> FALSE, submitted |-> FALSE, polled |-> FALSE, answer |-> FALSE]

Init ==
    /\ \E steps \in StepLists, run_mode \in InitialRunModes :
          worker = from(steps, run_mode)
    /\ phase = "resolve"
    /\ panicked = FALSE
    /\ blockingWait \in BOOLEAN
    /\ executeCalls = 0
    /\ submitCount = 0
    /\ lastSubmit = <<>>
    /\ stepResults = <<>>
    /\ tickInfo = NoTick
    /\ ret = Returned("none", "", "")
    /\ uploads = {}
    /\ inFlight = 0

\* The batches handed to the queue and not yet complete: submit() adds one,
\* and a device wait that answers true has drained the queue.
in_flight_after(n, submitted, drained) ==
    IF drained THEN 0
    ELSE IF submitted THEN Sat(n)
    ELSE n

\* The hook resolve_pipelines.
Resolve ==
    /\ phase = "resolve" /\ ~panicked
    /\ \E cache \in [Programs -> BOOLEAN] :
          worker' = extract_pipelines(worker, cache)
    /\ phase' = "tick"
    /\ UNCHANGED <<panicked, blockingWait, executeCalls, submitCount, lastSubmit,
                   stepResults, tickInfo, ret, uploads, inFlight>>

\* The hook tick, with p the answer of the device wait.
Tick(p) ==
    /\ phase = "tick" /\ ~panicked
    /\ blockingWait => p
    /\ \E r \in {run(worker, p)} :
           /\ worker' = r.w
           /\ panicked' = r.panic
           /\ submitCount' = IF r.submitted THEN Sat(submitCount) ELSE submitCount
           /\ lastSubmit' = IF r.submitted THEN r.batch ELSE lastSubmit
           /\ stepResults' = IF r.executed THEN r.results ELSE stepResults
           /\ tickInfo' = [executed |-> r.executed, submitted |-> r.submitted,
                           polled |-> r.polled, answer |-> r.polled /\ p]
           /\ inFlight' = in_flight_after(inFlight, r.submitted, r.polled /\ p)
    /\ phase' = "release"
    /\ UNCHANGED <<blockingWait, executeCalls, ret, uploads>>

\* The hook release_mappings.
Release ==
    /\ phase = "release" /\ ~panicked
    /\ worker' = unmap_all(worker)
    /\ phase' = "resolve"
    /\ UNCHANGED <<panicked, blockingWait, executeCalls, submitCount, lastSubmit,
                   stepResults, tickInfo, ret, uploads, inFlight>>

\* The caller calls execute().
Execute ==
    /\ phase = "resolve" /\ ~panicked
    /\ worker' = execute(worker)
    /\ executeCalls' = Sat(executeCalls)
    /\ ret' = Returned("execute", "", "")
    /\ UNCHANGED <<phase, panicked, blockingWait, submitCount, lastSubmit,
                   stepResults, tickInfo, uploads, inFlight>>

\* The caller calls write(target, data).
Write(target) ==
    /\ phase = "resolve" /\ ~panicked
    /\ \E r \in {write(worker, target)} :
           /\ worker' = r.w
           /\ ret' = Returned("write", target, r.res)
           /\ uploads' = IF r.upload = "" THEN uploads ELSE uploads \cup {r.upload}
    /\ UNCHANGED <<phase, panicked, blockingWait, executeCalls, submitCount,
                   lastSubmit, stepResults, tickInfo, inFlight>>

\* The caller reads target once ready() holds (update_resource).
Read(target) ==
    /\ phase = "resolve" /\ ~panicked
    /\ ready(worker)
    /\ ret' = Returned("read", target, read(worker, target))
    /\ UNCHANGED <<worker, phase, panicked, blockingWait, executeCalls, submitCount,
                   lastSubmit, stepResults, tickInfo, uploads, inFlight>>

Next ==
    \/ Resolve
    \/ \E p \in BOOLEAN : Tick(p)
    \/ Release
    \/ Execute
    \/ \E target \in WriteTargets : Write(target)
    \/ \E target \in ReadTargets : Read(target)

Spec == Init /\ [][Next]_vars

\* The scheduler keeps running the hooks, and the device wait, asked again
\* and again, eventually reports completion.
LiveSpec ==
    /\ Spec
    /\ WF_vars(Resolve)
    /\ WF_vars(\E p \in BOOLEAN : Tick(p))
    /\ WF_vars(Release)
    /\ SF_vars(Tick(TRUE))

(***************************************************************************)
(* Properties                                                              *)
(***************************************************************************)
IsOneShot == worker.run_mode.tag = "OneShot"

IsContinuous == worker.run_mode = Continuous

AllReadMapped == \A n \in DOMAIN worker.staging_buffers : worker.staging_buffers[n].read_mapped

NoneMapped ==
    \A n \in DOMAIN worker.staging_buffers :
        /\ ~worker.staging_buffers[n].read_mapped
        /\ ~worker.staging_buffers[n].write_mapped

\* C1: a one-shot worker whose execute() was called exactly once has at most
\* one batch submitted; when ready() holds exactly one batch was submitted
\* and the run mode is OneShot(false); once that batch is complete the
\* request flag stays false, so further ticks submit nothing.
C1_OneShotSingleRun ==
    (IsOneShot /\ executeCalls = 1) =>
        /\ submitCount <= 1
        /\ ready(worker) => (submitCount = 1 /\ worker.run_mode = OneShot(FALSE))
        /\ (submitCount = 1 /\ worker.state # "Working") =>
               worker.run_mode = OneShot(FALSE)

\* A further tick after the single run was seen ready: nothing was submitted.
C1_Witness ==
    /\ IsOneShot /\ executeCalls = 1 /\ submitCount = 1
    /\ worker.state = "Available" /\ phase = "release"
    /\ ~tickInfo.executed

\* Pass i names registered buffers only and a program of the pipeline table.
WellFormedPass(i) ==
    /\ worker.steps[i].kind = "ComputePass"
    /\ \A j \in 1..Len(worker.steps[i].vars) :
          worker.steps[i].vars[j] \in DOMAIN worker.buffers
    /\ worker.steps[i].shader_uuid \in DOMAIN worker.pipelines

Dispatched(i, batch) ==
    \E c \in 1..Len(batch) : batch[c].op = "dispatch" /\ batch[c].step = i

\* C2: for a continuous worker whose device wait always reports completion,
\* every tick enters the execute branch and submits one batch in which every
\* step of the list was run.
C2_ContinuousSubmitsEveryTick ==
    (IsContinuous /\ blockingWait /\ phase = "release") =>
        /\ tickInfo.executed
        /\ tickInfo.submitted
        /\ Len(stepResults) = Len(worker.steps)

\* C3: in a cycle that executes, a pass whose program is unresolved is
\* skipped without a panic and leaves no command, and a pass whose program
\* is resolved is dispatched in the batch of that very cycle.
C3_UnresolvedOnlyDelays ==
    (phase = "release" /\ tickInfo.executed) =>
        /\ ~panicked
        /\ tickInfo.submitted
        /\ \A i \in 1..Len(worker.steps) :
              WellFormedPass(i) =>
                  IF worker.pipelines[worker.steps[i].shader_uuid]
                  THEN stepResults[i] = "Ok" /\ Dispatched(i, lastSubmit)
                  ELSE stepResults[i] = "PipelineNotReady" /\ ~Dispatched(i, lastSubmit)

\* C4: whenever ready() is true, every read-staging buffer is mapped.
C4_ReadyImpliesMapped ==
    ready(worker) => AllReadMapped

\* C5: write(name, v) for a name without a staging pair returns
\* StagingBufferNotFound, enqueues no upload and leaves every field of the
\* worker, the pending-write flag included, as it was.
C5_WriteUnknownName ==
    [][\A target \in WriteTargets \ DOMAIN worker.staging_buffers :
           Write(target) =>
               /\ ret'.res = "StagingBufferNotFound"
               /\ worker' = worker
               /\ uploads' = uploads]_vars

\* The failed write happened while a write was pending.
C5_Witness ==
    /\ ret = Returned("write", "U", "StagingBufferNotFound")
    /\ worker.write_requested
    /\ uploads = {"A"}

\* The failed write happened while no write was pending.
C5_WitnessClear ==
    /\ ret = Returned("write", "U", "StagingBufferNotFound")
    /\ ~worker.write_requested

UnregisteredSwap(i) ==
    /\ worker.steps[i].kind = "Swap"
    /\ \/ worker.steps[i].a \notin DOMAIN worker.buffers
       \/ worker.steps[i].b \notin DOMAIN worker.buffers

\* C6: a Swap step naming an unregistered buffer (first, second or both)
\* returns BufferNotFound and leaves the registry as it was; the executed
\* cycle recorded that result for the step.
C6_SwapUnregistered ==
    \A i \in 1..Len(worker.steps) :
        UnregisteredSwap(i) =>
            /\ swap(worker, i).res = "BufferNotFound"
            /\ swap(worker, i).w.buffers = worker.buffers
            /\ i <= Len(stepResults) => stepResults[i] = "BufferNotFound"
            /\ (\A k \in 1..Len(worker.steps) :
                   worker.steps[k].kind = "Swap" => UnregisteredSwap(k))
                 => worker.buffers = InitialBuffers

\* A cycle ran a Swap whose two names are both unregistered and submitted.
C6_Witness ==
    /\ tickInfo.submitted
    /\ \E i \in 1..Len(stepResults) :
          /\ UnregisteredSwap(i)
          /\ worker.steps[i].a \notin DOMAIN worker.buffers
          /\ worker.steps[i].b \notin DOMAIN worker.buffers
          /\ stepResults[i] = "BufferNotFound"

\* Step i is Swap(A,B) with A, B distinct and registered, no swap precedes
\* it, and step i+1 is a pass bound to A.
SwapThenPass(i) ==
    /\ i + 1 <= Len(worker.steps)
    /\ worker.steps[i].kind = "Swap"
    /\ worker.steps[i].a # worker.steps[i].b
    /\ {worker.steps[i].a, worker.steps[i].b} \subseteq DOMAIN worker.buffers
    /\ \A k \in 1..(i - 1) : worker.steps[k].kind # "Swap"
    /\ worker.steps[i + 1].kind = "ComputePass"
    /\ \E j \in 1..Len(worker.steps[i + 1].vars) :
          worker.steps[i + 1].vars[j] = worker.steps[i].a

\* C7: in a cycle that executes Swap(A,B) followed by a pass bound to A, the
\* dispatch recorded for the pass binds, at the position of A, the device
\* buffer that was registered under B before the swap ran.
C7_PassSeesSwappedBuffer ==
    [][\A i \in 1..Len(worker.steps) :
          (/\ phase = "tick" /\ phase' = "release" /\ tickInfo'.submitted
           /\ SwapThenPass(i)
           /\ worker.pipelines[worker.steps[i + 1].shader_uuid])
          => \E c \in 1..Len(lastSubmit') :
                /\ lastSubmit'[c].op = "dispatch"
                /\ lastSubmit'[c].step = i + 1
                /\ \A j \in 1..Len(worker.steps[i + 1].vars) :
                      worker.steps[i + 1].vars[j] = worker.steps[i].a
                      => <<j, worker.buffers[worker.steps[i].b]>> \in lastSubmit'[c].entries]_vars

\* A submitted batch holds the dispatch of a pass that follows a swap, in a
\* cycle that started from the exchanged registry (the second such cycle).
C7_Witness ==
    /\ tickInfo.submitted /\ phase = "release"
    /\ \E i \in 1..Len(worker.steps) :
          /\ SwapThenPass(i)
          /\ \E c \in 1..Len(lastSubmit) :
                /\ lastSubmit[c].op = "dispatch"
                /\ lastSubmit[c].step = i + 1
                /\ lastSubmit[c].entries = {<<1, 1>>}
                /\ submitCount = 2

\* C8: execute() changes nothing on a continuous worker; on a one-shot
\* worker it sets the run mode to OneShot(true), changes nothing else and is
\* idempotent; the next tick that finds the worker requested and not Working
\* performs one full execution.
C8_ExecuteThenFullRun ==
    /\ [][Execute =>
            /\ IsContinuous => worker' = worker
            /\ IsOneShot =>
                  /\ worker' = [worker EXCEPT !.run_mode = OneShot(TRUE)]
                  /\ execute(worker') = worker']_vars
    /\ [][(/\ phase = "tick" /\ phase' = "release"
           /\ worker.run_mode = OneShot(TRUE) /\ worker.state # "Working")
          => (/\ tickInfo'.submitted
              /\ Len(stepResults') = Len(worker.steps)
              /\ submitCount' = Sat(submitCount))]_vars

\* C9: while ticks keep occurring, a one-shot worker whose execute() was
\* called eventually is ready(), and a worker that is Working eventually is
\* ready().
C9_RequestedRunCompletes ==
    /\ ([]<>(phase = "tick")) =>
           ((worker.run_mode = OneShot(TRUE)) ~> ready(worker))
    /\ (worker.state = "Working") ~> ready(worker)

\* A one-shot run was left Working by one tick and a later tick, which did
\* not execute, saw the device wait complete.
C9_Witness ==
    /\ IsOneShot /\ ready(worker) /\ executeCalls >= 1
    /\ ~tickInfo.executed /\ tickInfo.answer

\* C10: a tick that enters the execute branch starts with no staging buffer
\* mapped.
C10_ExecuteStartsUnmapped ==
    [][(phase = "tick" /\ phase' = "release" /\ tickInfo'.executed) => NoneMapped]_vars

AllWriteMapped ==
    \A n \in DOMAIN worker.staging_buffers : worker.staging_buffers[n].write_mapped

\* C12: a tick that submits with a write pending leaves every write-staging
\* buffer and every read-staging buffer marked mapped; a tick that submits
\* with no write pending marks the read-staging buffers only.
C12_WriteStagingMappedWhenPending ==
    [][(\E p \in BOOLEAN : Tick(p)) /\ tickInfo'.submitted =>
          /\ AllReadMapped'
          /\ IF worker.write_requested
             THEN AllWriteMapped'
             ELSE \A n \in DOMAIN worker.staging_buffers :
                     worker'.staging_buffers[n].write_mapped
                         = worker.staging_buffers[n].write_mapped]_vars

\* C13 as stated: whatever the run mode, the first tick takes a worker out
\* of Created through Available, so that no tick ends in state Created.
C13_CreatedToAvailable ==
    [][(\E p \in BOOLEAN : Tick(p)) => worker'.state # "Created"]_vars

\* C13: no tick moves a worker from Created to Available: a worker leaves
\* Created only in a tick that executes, which takes it to Working (or on
\* to FinishedWorking when the wait completes), so a one-shot worker whose
\* execute() was never called stays Created; Available is entered only
\* from FinishedWorking, at the start of a tick.
C13_CreatedUntilExecuted ==
    [][/\ (worker.state = "Created" /\ worker'.state # "Created") =>
             /\ \E p \in BOOLEAN : Tick(p)
             /\ tickInfo'.executed
             /\ worker'.state \in {"Working", "FinishedWorking"}
       /\ (IsOneShot /\ executeCalls = 0) => worker'.state = "Created"
       /\ (\E p \in BOOLEAN : Tick(p)) /\ worker'.state = "Available" =>
             worker.state \in {"Available", "FinishedWorking"}]_vars

\* A one-shot worker that was never asked to execute is still Created after
\* its first tick.
C13_Witness ==
    /\ IsOneShot
    /\ executeCalls = 0
    /\ phase = "release"
    /\ worker.state = "Created"

\* C14: a tick enters the execute branch, and so records and submits a
\* batch, only when the worker it starts from is not Working and its run
\* mode is not OneShot(false); and at most one submitted batch is in flight
\* in every reachable state, also when the wait answers "not yet complete".
C14_AtMostOneBatchInFlight ==
    /\ [][(\E p \in BOOLEAN : Tick(p)) /\ (tickInfo'.executed \/ tickInfo'.submitted) =>
             /\ worker.state # "Working"
             /\ worker.run_mode # OneShot(FALSE)]_vars
    /\ [](inFlight <= 1)
    /\ [](worker.state = "Working" => inFlight = 1)

\* A tick found the earlier batch still in flight and submitted nothing.
C14_Witness ==
    /\ phase = "release"
    /\ worker.state = "Working"
    /\ inFlight = 1
    /\ tickInfo.polled /\ ~tickInfo.answer
    /\ ~tickInfo.executed

\* The write copy of every write-staging buffer into the device buffer that
\* registry associates with its name.
WriteCopy(registry) ==
    Cmd("copy_write_staging_to_buffer", 0, "",
        {<<n, registry[n]>> : n \in DOMAIN worker.staging_buffers})

IsWriteCopy(cmd) == cmd.op = "copy_write_staging_to_buffer"

\* C15: a successful write sets the pending-write flag; only a tick that
\* executes clears it, so it stays set across every other step; a tick that
\* executes with the flag set records, before anything else, the copy of
\* every write-staging buffer into the device buffer registered under its
\* name when the tick starts, records no other write copy, and ends with
\* the flag clear; a tick that executes with the flag clear records no write
\* copy.
C15_PendingWriteUploadedOnce ==
    [][\E cmds \in {IF tickInfo'.submitted THEN lastSubmit'
                    ELSE worker'.command_encoder.cmds} :
          /\ (\E t \in WriteTargets : Write(t)) /\ ret'.res = "Ok" =>
                worker'.write_requested
          /\ worker.write_requested /\ ~worker'.write_requested =>
                (\E p \in BOOLEAN : Tick(p)) /\ tickInfo'.executed
          /\ (\E p \in BOOLEAN : Tick(p)) /\ tickInfo'.executed =>
                IF worker.write_requested
                THEN /\ ~worker'.write_requested
                     /\ Len(cmds) >= 1
                     /\ cmds[1] = WriteCopy(worker.buffers)
                     /\ \A i \in 2..Len(cmds) : ~IsWriteCopy(cmds[i])
                ELSE /\ ~worker'.write_requested
                     /\ \A i \in 1..Len(cmds) : ~IsWriteCopy(cmds[i])]_vars

\* A one-shot worker kept a write pending over ticks that did not execute,
\* and the tick that executed copied it into the buffers that an earlier
\* swap had left registered under the staged names.
C15_Witness ==
    /\ IsOneShot
    /\ phase = "release"
    /\ tickInfo.submitted
    /\ submitCount = 2
    /\ ~worker.write_requested
    /\ Len(lastSubmit) >= 1
    /\ IsWriteCopy(lastSubmit[1])
    /\ <<"A", InitialBuffers["B"]>> \in lastSubmit[1].entries

IsReadCopy(cmd) == cmd.op = "copy_buffer_to_read_staging"

\* C16: a tick that enters the execute branch runs every step of the list
\* whatever the steps before it returned, never aborts, records the
\* read-staging copy last, submits the batch and passes through Working.
C16_StepErrorsDiscarded ==
    [][(\E p \in BOOLEAN : Tick(p)) /\ tickInfo'.executed =>
          /\ ~panicked'
          /\ Len(stepResults') = Len(worker.steps)
          /\ tickInfo'.submitted
          /\ Len(lastSubmit') >= 1
          /\ IsReadCopy(lastSubmit'[Len(lastSubmit')])
          /\ worker'.state \in {"Working", "FinishedWorking"}]_vars

\* The commands of batch from position c on are dispatches of steps in
\* strictly increasing position, followed by exactly one read-staging copy
\* that ends the batch.
RECURSIVE OrderedFrom(_, _, _)
OrderedFrom(batch, c, last) ==
    IF c = Len(batch) THEN IsReadCopy(batch[c])
    ELSE /\ batch[c].op = "dispatch"
         /\ batch[c].step > last
         /\ OrderedFrom(batch, c + 1, batch[c].step)

\* C17: a tick that enters the execute branch submits exactly one batch,
\* made of the write copy if a write was pending, then the dispatches in the
\* order of the step list, then one read-staging copy that takes, for every
\* staged name, the buffer registered under that name after all the swaps of
\* the tick; the staging buffers are marked mapped after the submission.
C17_RecordedOrder ==
    [][(\E p \in BOOLEAN : Tick(p)) /\ tickInfo'.executed =>
          /\ tickInfo'.submitted
          /\ submitCount' = Sat(submitCount)
          /\ Len(stepResults') = Len(worker.steps)
          /\ Len(lastSubmit') >= 1
          /\ OrderedFrom(lastSubmit', IF worker.write_requested THEN 2 ELSE 1, 0)
          /\ lastSubmit'[Len(lastSubmit')].entries =
                {<<n, worker'.buffers[n]>> : n \in DOMAIN worker.staging_buffers}
          /\ worker'.command_encoder.cmds = <<>>
          /\ AllReadMapped']_vars

\* C18: the pipeline table always has the programs given at construction as
\* its keys and starts with every entry unresolved; no step turns a resolved
\* entry into an unresolved one; only the resolve hook changes the table,
\* and for every answer of the cache it leaves an entry resolved exactly
\* when it was resolved already or the cache returned its pipeline.
C18_PipelinesMonotone ==
    /\ \A u \in DOMAIN worker.pipelines : ~worker.pipelines[u]
    /\ [](DOMAIN worker.pipelines = Programs)
    /\ [][/\ \A u \in Programs : worker.pipelines[u] => worker'.pipelines[u]
          /\ worker'.pipelines # worker.pipelines => Resolve
          /\ Resolve =>
                \A cache \in [Programs -> BOOLEAN] :
                   \A u \in Programs :
                      extract_pipelines(worker, cache).pipelines[u]
                          = (worker.pipelines[u] \/ cache[u])]_vars

\* A resolved entry has been through later resolve calls while another entry
\* is still unresolved.
C18_Witness ==
    /\ worker.pipelines["p1"]
    /\ ~worker.pipelines["p2"]
    /\ submitCount >= 2
    /\ phase = "tick"

\* Swap step i names two different registered buffers.
RegisteredSwap(i) ==
    /\ worker.steps[i].kind = "Swap"
    /\ worker.steps[i].a \in DOMAIN worker.buffers
    /\ worker.steps[i].b \in DOMAIN worker.buffers
    /\ worker.steps[i].a # worker.steps[i].b

\* C19: in every reachable state the registry has the names given at
\* construction and maps them one-to-one onto the buffers given at
\* construction; and running a Swap of two registered names twice gives
\* back the mapping it started from.
C19_RegistryIsPermutation ==
    /\ DOMAIN worker.buffers = BufferNames
    /\ {worker.buffers[n] : n \in BufferNames} = {InitialBuffers[n] : n \in BufferNames}
    /\ \A m, n \in BufferNames : worker.buffers[m] = worker.buffers[n] => m = n
    /\ \A i \in 1..Len(worker.steps) :
          RegisteredSwap(i) =>
             /\ swap(worker, i).res = "Ok"
             /\ swap(worker, i).w.buffers # worker.buffers
             /\ swap(swap(worker, i).w, i).w.buffers = worker.buffers

\* Two executed cycles of a list that swaps A and B once have brought the
\* registry back to the mapping given at construction.
C19_Witness ==
    /\ Len(worker.steps) >= 1
    /\ worker.steps[1] = Swap("A", "B")
    /\ submitCount = 2
    /\ phase = "release"
    /\ tickInfo.submitted
    /\ stepResults[1] = "Ok"
    /\ worker.buffers = InitialBuffers

\* C20: for a one-shot worker the number of batches submitted so far never
\* exceeds the number of execute() calls made so far, and a tick submits
\* only when a request is pending, whatever number of calls raised it.
C20_SubmitsBoundedByExecuteCalls ==
    IsOneShot =>
        /\ submitCount <= executeCalls
        /\ executeCalls = 0 => worker.run_mode = OneShot(FALSE)
        /\ (phase = "release" /\ tickInfo.submitted /\ tickInfo.answer) =>
              worker.run_mode = OneShot(FALSE)

\* Several execute() calls made before the tick and while the run was
\* Working have led to a single submission.
C20_Witness ==
    /\ IsOneShot
    /\ executeCalls = MaxCount
    /\ submitCount = 1
    /\ ready(worker)
    /\ worker.run_mode = OneShot(FALSE)

\* C21: a worker that is Working never has run mode OneShot(false), and
\* every tick that starts from a Working worker performs the device wait,
\* whatever execute() calls were made in between.
C21_WorkingIsPolled ==
    /\ [](worker.state = "Working" => worker.run_mode # OneShot(FALSE))
    /\ [][(\E p \in BOOLEAN : Tick(p)) /\ worker.state = "Working" =>
             /\ tickInfo'.polled
             /\ ~tickInfo'.executed
             /\ tickInfo'.answer => ready(worker')]_vars

\* A one-shot worker was Working when a tick started, execute() had been
\* called again in between, and the tick performed the wait.
C21_Witness ==
    /\ IsOneShot
    /\ executeCalls >= 2
    /\ phase = "release"
    /\ worker.state = "Working"
    /\ tickInfo.polled
    /\ ~tickInfo.executed

\* C22: a tick of a worker whose run mode is OneShot(false) submits nothing
\* and performs no device wait; it changes the worker in nothing but the
\* state, which goes from FinishedWorking to Available and is otherwise
\* kept, so the worker is not ready() after such a tick; a one-shot worker
\* is ready() after a tick only when the wait of that tick completed.
C22_IdleOneShotTick ==
    /\ [][(\E p \in BOOLEAN : Tick(p)) /\ worker.run_mode = OneShot(FALSE) =>
             /\ ~tickInfo'.executed /\ ~tickInfo'.submitted /\ ~tickInfo'.polled
             /\ submitCount' = submitCount
             /\ lastSubmit' = lastSubmit
             /\ inFlight' = inFlight
             /\ ~panicked'
             /\ worker' = [worker EXCEPT
                              !.state = IF @ = "FinishedWorking" THEN "Available" ELSE @]
             /\ ~ready(worker')]_vars
    /\ [][(\E p \in BOOLEAN : Tick(p)) /\ IsOneShot /\ ready(worker') =>
             tickInfo'.answer]_vars

\* An idle one-shot worker went from FinishedWorking to Available in a tick
\* that kept the pending write and the mapped flags.
C22_Witness ==
    /\ worker.run_mode = OneShot(FALSE)
    /\ phase = "release"
    /\ worker.state = "Available"
    /\ ~tickInfo.polled
    /\ worker.write_requested
    /\ DOMAIN worker.staging_buffers # {}
    /\ AllReadMapped

\* The worker as the first block of run() leaves it.
AfterFirstBlock == IF ready(worker) THEN [worker EXCEPT !.state = "Available"] ELSE worker

\* C23: a worker that is not Working holds a command encoder, so that no
\* tick stops on a missing encoder in write_staging_buffers(),
\* read_staging_buffers() or submit(); and whenever a tick performs the
\* wait, the worker that reaches it holds no encoder, so that the fresh
\* encoder replaces none and every recorded command has gone into the
\* submitted batch.  The only tick that stops does so inside swap().
C23_EncoderPresentUnlessWorking ==
    /\ [](worker.state # "Working" => worker.command_encoder.some)
    /\ [](worker.state = "Working" => worker.command_encoder = NoEncoder)
    /\ [][(\E p \in BOOLEAN : Tick(p)) =>
             /\ tickInfo'.executed =>
                   /\ upload_writes(AfterFirstBlock).panic = FALSE
                   /\ \A i \in 1..Len(stepResults') : stepResults'[i] # "EncoderIsNone"
                   /\ IF panicked'
                      THEN /\ stepResults' # <<>>
                           /\ stepResults'[Len(stepResults')] = "Panic"
                      ELSE tickInfo'.submitted
             /\ tickInfo'.polled =>
                   IF tickInfo'.executed
                   THEN execute_branch(AfterFirstBlock).w.command_encoder = NoEncoder
                   ELSE worker.command_encoder = NoEncoder
             /\ tickInfo'.answer => worker'.command_encoder = NewEncoder]_vars

\* A wait that completed in a later tick than the submission installed the
\* encoder of a worker that held none.
C23_Witness ==
    /\ phase = "release"
    /\ tickInfo.answer
    /\ ~tickInfo.executed
    /\ ready(worker)
    /\ worker.command_encoder = NewEncoder
    /\ lastSubmit # <<>>

====
